---- MODULE Spec2Model ----
(***************************************************************************)
(* CruxRec: subtitle acquisition, audio-transcription fallback and the     *)
(* pipeline controller (src/cruxrec/pipline.py, subs_provider.py,          *)
(* transcriber.py), as one sequential state machine.  The external         *)
(* capabilities (yt-dlp, ffmpeg, ffprobe, the Whisper and Gemini APIs, the *)
(* process environment) answer nondeterministically at each call.          *)
(***************************************************************************)
EXTENDS Integers, Sequences, FiniteSets, TLC

VARIABLES
    entry,          \* which public operation the current call runs
    pc,             \* position of the running call
    env,            \* os.environ: which of the two keys are set
    prompt,         \* Pipline.prompt
    lang,           \* Pipline.lang / fetch_subtitles(lang)
    url,            \* Pipline.url / transcribe_from_url(url)
    auto_sub,       \* fetch_subtitles(auto_sub)
    disk,           \* files matching subs.* in rglob order
    sub_file,       \* fetch_subtitles: sub_file (a name, or NoFile)
    subtitles_text, \* fetch_subtitles / Pipline.start: subtitles_text
    tdisk,          \* video, audio and wav files present in the directory
    video_file,     \* transcribe_from_url: video_file
    audio_path,     \* _transcribe_audio: audio_path
    wav_audio_path, \* _transcribe_audio: wav_audio_path
    transcription,  \* transcribe_from_url: transcription
    outcome,        \* how the call ended (value returned, exit, exception)
    cause,          \* history: why the call ended the way it did
    prev,           \* history: outcome and cause of the call before, when a pipeline run
    fetched,        \* history: how fetch_subtitles ended in the current call
    trace,          \* history: what the current call has invoked so far
    args_auto_sub,  \* cli.main: args.auto_sub, the --auto-sub flag
    run,            \* which of the runs sharing the directory is the one shown
    parked          \* the other run sharing the directory, while it waits

vars == <<entry, pc, env, prompt, lang, url, auto_sub, disk, sub_file,
          subtitles_text, tdisk, video_file, audio_path, wav_audio_path,
          transcription, outcome, cause, prev, fetched, trace, args_auto_sub, run, parked>>

----------------------------------------------------------------------------
(* Text.  A text is a sequence of tokens; "nl" is a line break, "sp" a      *)
(* whitespace character, "tc" a time code HH:MM:SS.fff, "--" two hyphens    *)
(* (so that "--", ">" is the arrow of a timestamp line), "WEBVTT", "Kind:"  *)
(* and "Language:" those literal characters, "<" and ">" themselves, and    *)
(* "x", "y" any other character.                                            *)

Tokens == {"nl", "sp", "tc", "--", "WEBVTT", "Kind:", "Language:", "<", ">", "x", "y"}

RECURSIVE SplitLines(_)
\* str.splitlines(): the lines between line breaks, no empty last line
SplitLines(s) ==
    IF s = <<>> THEN <<>>
    ELSE LET brk == {i \in 1..Len(s) : s[i] = "nl"}
         IN  IF brk = {} THEN <<s>>
             ELSE LET i == CHOOSE j \in brk : \A k \in brk : j <= k
                  IN  <<SubSeq(s, 1, i - 1)>> \o SplitLines(SubSeq(s, i + 1, Len(s)))

IsSpace(t) == t \in {"sp", "nl"}

RECURSIVE LStrip(_)
LStrip(s) == IF s # <<>> /\ IsSpace(s[1]) THEN LStrip(Tail(s)) ELSE s

RECURSIVE RStrip(_)
RStrip(s) == IF s # <<>> /\ IsSpace(s[Len(s)]) THEN RStrip(SubSeq(s, 1, Len(s) - 1)) ELSE s

\* str.strip()
Strip(s) == RStrip(LStrip(s))

\* line.startswith("WEBVTT") or line.startswith("Kind:") or line.startswith("Language:")
IsHeader(line) == line # <<>> /\ line[1] \in {"WEBVTT", "Kind:", "Language:"}

RECURSIVE SkipSp(_)
\* \s* of the timestamp pattern
SkipSp(s) == IF s # <<>> /\ s[1] = "sp" THEN SkipSp(Tail(s)) ELSE s

\* timestamp_re.match(line): tc \s* --> \s* tc at the start of the line
TimestampMatch(line) ==
    /\ line # <<>> /\ line[1] = "tc"
    /\ LET a == SkipSp(Tail(line))
       IN  /\ Len(a) >= 2 /\ a[1] = "--" /\ a[2] = ">"
           /\ LET b == SkipSp(Tail(Tail(a))) IN b # <<>> /\ b[1] = "tc"

\* (only the first tag removed, as with count=1)
StripTags_FirstOnly(s) ==
    LET op == {i \in 1..Len(s) : s[i] = "<" /\ \E j \in (i + 1)..Len(s) : s[j] = ">"}
    IN  IF op = {} THEN s
        ELSE LET i == CHOOSE a \in op : \A b \in op : a <= b
                 cl == {j \in (i + 1)..Len(s) : s[j] = ">"}
                 j == CHOOSE a \in cl : \A b \in cl : a <= b
             IN  SubSeq(s, 1, i - 1) \o SubSeq(s, j + 1, Len(s))

RECURSIVE StripTags(_)
\* html_tag_re.sub("", line): every "<", up to the first ">" after it, removed
StripTags(s) ==
    IF s = <<>> THEN <<>>
    ELSE IF s[1] = "<"
         THEN LET cl == {i \in 2..Len(s) : s[i] = ">"}
              IN  IF cl = {} THEN <<s[1]>> \o StripTags(Tail(s))
                  ELSE LET i == CHOOSE j \in cl : \A k \in cl : j <= k
                       IN  StripTags(SubSeq(s, i + 1, Len(s)))
         ELSE <<s[1]>> \o StripTags(Tail(s))

NoLine == <<"nl">>  \* prev_line = None: no line holds a line break

RECURSIVE CleanLines_ResetOnDiscard(_, _)
\* (a discarded line forgetting the last line kept)
CleanLines_ResetOnDiscard(lines, prevLine) ==
    IF lines = <<>> THEN <<>>
    ELSE LET l1 == Strip(lines[1])
             l2 == Strip(StripTags(l1))
         IN  IF l1 = <<>> \/ IsHeader(l1) \/ TimestampMatch(l1) \/ l2 = <<>>
             THEN CleanLines_ResetOnDiscard(Tail(lines), NoLine)
             ELSE IF l2 # prevLine
                  THEN <<l2>> \o CleanLines_ResetOnDiscard(Tail(lines), l2)
                  ELSE CleanLines_ResetOnDiscard(Tail(lines), prevLine)

RECURSIVE CleanLines(_, _)
\* the loop of parse_subtitle over the remaining lines, prev the last line kept
CleanLines(lines, prevLine) ==
    IF lines = <<>> THEN <<>>
    ELSE LET l1 == Strip(lines[1])
             l2 == Strip(StripTags(l1))
         IN  IF l1 = <<>> \/ IsHeader(l1) \/ TimestampMatch(l1) \/ l2 = <<>>
             THEN CleanLines(Tail(lines), prevLine)
             ELSE IF l2 # prevLine
                  THEN <<l2>> \o CleanLines(Tail(lines), l2)
                  ELSE CleanLines(Tail(lines), prevLine)

RECURSIVE Join(_)
\* "\n".join(lines)
Join(lines) ==
    IF lines = <<>> THEN <<>>
    ELSE IF Len(lines) = 1 THEN lines[1]
         ELSE lines[1] \o <<"nl">> \o Join(Tail(lines))

\* parse_subtitle on the content of a readable file
ParseText(content) == Join(CleanLines(SplitLines(content), NoLine))

----------------------------------------------------------------------------
(* Values.  A Python value of start/fetch_subtitles/transcribe_from_url is  *)
(* None, a str (its text), or the coroutine object an un-awaited async call *)
(* returns.                                                                 *)

None == [tag |-> "None", val |-> <<>>]
Str(s) == [tag |-> "str", val |-> s]
Coroutine == [tag |-> "coroutine", val |-> <<>>]

\* bool(v): None and "" are falsy, a coroutine object is truthy
Truthy(v) == v.tag = "coroutine" \/ (v.tag = "str" /\ v.val # <<>>)

\* isinstance(v, str)
IsStr(v) == v.tag = "str"

Running == [kind |-> "running", val |-> None]
Returned(v) == [kind |-> "return", val |-> v]
SysExit1 == [kind |-> "exit", val |-> None]      \* sys.exit(1)
Raised == [kind |-> "raise", val |-> None]       \* an exception leaves the call

\* one entry of the history of what a call invoked
\* (op: what was invoked; arg, text, num: what it was given or located;
\* res: how the outside world answered)
EvF(op, arg, text, num, res) == [op |-> op, arg |-> arg, text |-> text, num |-> num, res |-> res]
Ev(op, arg) == EvF(op, arg, <<>>, 0, "")
EvT(op, arg, text) == EvF(op, arg, text, 0, "")
Events(op) == {trace[i] : i \in {j \in 1..Len(trace) : trace[j].op = op}}
Did(op) == \E i \in 1..Len(trace) : trace[i].op = op
DidArg(op, arg) == \E i \in 1..Len(trace) : trace[i].op = op /\ trace[i].arg = arg
Count(op) == Cardinality({i \in 1..Len(trace) : trace[i].op = op})
BoolStr(b) == IF b THEN "True" ELSE "False"

----------------------------------------------------------------------------
(* The world the calls run in.                                              *)

Prompts == {"p1", "p2"}
Langs == {"ru", "en"}
Urls == {"https://host/v1"}
Entries == {"start", "fetch_subtitles", "transcribe_from_url", "remove_subtitles"}

NoFile == "None"

\* contents a subtitle download may leave in subs.<lang>.vtt
CaptionFile == <<"WEBVTT", "nl", "Kind:", "x", "nl", "nl", "tc", "sp", "--", ">", "sp", "tc", "nl",
                 "<", "x", ">", "x", "y", "nl", "x", "y", "nl", "y", "nl">>
HeaderOnlyFile == <<"WEBVTT", "nl", "nl", "tc", "sp", "--", ">", "sp", "tc", "nl", "<", "x", ">", "nl">>
BlankFile == <<"sp", "nl">>
EmptyFile == <<>>

FileVariants ==
    {[content |-> c, readable |-> TRUE] :
        c \in {CaptionFile, HeaderOnlyFile, BlankFile, EmptyFile}}
    \cup {[content |-> CaptionFile, readable |-> FALSE]}

\* the name yt-dlp gives the subtitle file of a language under outtmpl "subs.%(ext)s"
SubsName(l) == l

Index(d, name) == {i \in 1..Len(d) : d[i].name = name}

InsertAt(d, i, f) == SubSeq(d, 1, i - 1) \o <<f>> \o SubSeq(d, i, Len(d))

\* the directory after a download wrote file `name`: an existing file keeps
\* its place in the traversal order, a new one may come anywhere in it
Written(d, name, v) ==
    LET f == [name |-> name, content |-> v.content, readable |-> v.readable]
    IN  IF Index(d, name) # {}
        THEN {[d EXCEPT ![CHOOSE i \in Index(d, name) : TRUE] = f]}
        ELSE {InsertAt(d, i, f) : i \in 1..(Len(d) + 1)}

\* ydl.download([url]) with skip_download: it writes a subtitle file or none
DownloadWrites(d, name, wrote) ==
    IF wrote THEN UNION {Written(d, name, v) : v \in FileVariants} ELSE {d}

\* find_subtitle_file: the first match of subs.* in traversal order
find_subtitle_file(d) == IF d = <<>> THEN NoFile ELSE d[1].name

File(d, name) == d[CHOOSE i \in Index(d, name) : TRUE]

\* sub_file.stat().st_size
StSize(d, name) == Len(File(d, name).content)

\* lines 61-67: a located file of size 0 is dropped
FirstFileValid(d) ==
    LET f == find_subtitle_file(d)
    IN  IF f # NoFile /\ StSize(d, f) = 0 THEN NoFile ELSE f

\* (the size of the file located by the retry not looked at)
FallbackFileValid_Unsized(d) == find_subtitle_file(d)

\* lines 76-79: the same for the file located after the auto-generated download
FallbackFileValid(d) ==
    LET f == find_subtitle_file(d)
    IN  IF f # NoFile /\ StSize(d, f) = 0 THEN NoFile ELSE f

----------------------------------------------------------------------------
(* How a call ends.                                                         *)

\* the call ends: its outcome and the reason are recorded
Finish(o, why) ==
    /\ outcome' = o
    /\ cause' = why
    /\ pc' = "done"

\* fetch_subtitles returns v: to its caller, or into line 28 of Pipline.start
FetchReturn(v) ==
    /\ subtitles_text' = v
    /\ fetched' = Returned(v)
    /\ IF entry = "start"
       THEN pc' = "check_subtitles" /\ UNCHANGED <<outcome, cause>>
       ELSE Finish(Returned(v), IF v = None THEN "NoSubtitles" ELSE "Subtitles")

\* an exception leaves fetch_subtitles; Pipline.start has no handler around line 28
FetchRaise ==
    /\ fetched' = Raised
    /\ Finish(Raised, "SubtitleFileUnreadable")
    /\ UNCHANGED subtitles_text

\* fetch_subtitles goes on at `at`
FetchGoOn(at) ==
    /\ pc' = at
    /\ UNCHANGED <<subtitles_text, fetched, outcome, cause>>

----------------------------------------------------------------------------
(* SubsProvider.fetch_subtitles                                             *)

\* the size of the file find_subtitle_file locates, -1 when it locates none
LocatedSize(d) == IF find_subtitle_file(d) = NoFile THEN -1 ELSE StSize(d, find_subtitle_file(d))

Located(d) == EvF("find_subtitle_file", find_subtitle_file(d), <<>>, LocatedSize(d), "")

\* download_subtitles(write_auto) answering ok, having written the file named or none
Downloaded(write_auto, wrote, ok) ==
    EvF("download_subtitles", BoolStr(write_auto),
        IF wrote THEN <<SubsName(lang)>> ELSE <<>>, 0, BoolStr(ok))

\* line 58: download_subtitles(auto_sub); its result is not looked at
FetchDownload ==
    /\ pc = "download_subtitles"
    /\ \E ok \in BOOLEAN, wrote \in BOOLEAN :
          \E d \in DownloadWrites(disk, SubsName(lang), wrote) :
             /\ disk' = d
             /\ trace' = Append(trace, Downloaded(auto_sub, wrote, ok))
    /\ pc' = "find_subtitle_file"
    /\ UNCHANGED <<entry, args_auto_sub, run, parked, transcription, env, prompt, lang, url, auto_sub, sub_file, subtitles_text,
                   tdisk, video_file, audio_path, wav_audio_path, outcome, cause, prev, fetched>>

\* (the retry made whatever the caller asked for)
RetryWanted_Always(f, a) == f = NoFile

\* line 69: if not sub_file and not auto_sub
RetryWanted(f, a) == f = NoFile /\ ~a

\* lines 60-69 and 81-83: locate the file, drop it when its size is 0, and
\* decide between the auto-generated retry, giving up and parsing
FetchFind ==
    /\ pc = "find_subtitle_file"
    /\ trace' = Append(trace, Located(disk))
    /\ LET f == FirstFileValid(disk)
       IN  /\ sub_file' = f
           /\ IF RetryWanted(f, auto_sub)
              THEN FetchGoOn("download_fallback")
              ELSE IF f = NoFile
                   THEN FetchReturn(None)
                   ELSE FetchGoOn("parse_subtitle")
    /\ UNCHANGED <<entry, args_auto_sub, run, parked, transcription, env, prompt, lang, url, auto_sub, disk,
                   tdisk, video_file, audio_path, wav_audio_path, prev>>

\* lines 73-83: the auto-generated download, and the search after it
FetchFallback ==
    /\ pc = "download_fallback"
    /\ \E ok \in BOOLEAN, wrote \in BOOLEAN :
          \E d \in DownloadWrites(disk, SubsName(lang), wrote) :
             /\ disk' = d
             /\ IF ~ok
                THEN /\ trace' = Append(trace, Downloaded(TRUE, wrote, FALSE))
                     /\ sub_file' = NoFile
                     /\ FetchReturn(None)
                ELSE /\ trace' = trace \o <<Downloaded(TRUE, wrote, TRUE), Located(d)>>
                     /\ LET f == FallbackFileValid(d)
                        IN  /\ sub_file' = f
                            /\ IF f = NoFile
                               THEN FetchReturn(None)
                               ELSE FetchGoOn("parse_subtitle")
    /\ UNCHANGED <<entry, args_auto_sub, run, parked, transcription, env, prompt, lang, url, auto_sub,
                   tdisk, video_file, audio_path, wav_audio_path, prev>>

\* lines 92-101: parse_subtitle raises when the file cannot be read (IOError,
\* re-raised at line 101) or decoded as UTF-8
ParseRaises(f) == ~f.readable

\* lines 85-90: parse the located file; an all-blank result is None
FetchParse ==
    /\ pc = "parse_subtitle"
    /\ LET f == File(disk, sub_file)
       IN  /\ trace' = Append(trace, EvF("parse_subtitle", sub_file, f.content, Len(f.content),
                                         BoolStr(f.readable)))
           /\ IF ParseRaises(f)
              THEN FetchRaise
              ELSE LET t == ParseText(f.content)
                   IN  IF Strip(t) = <<>> THEN FetchReturn(None) ELSE FetchReturn(Str(t))
    /\ UNCHANGED <<entry, args_auto_sub, run, parked, transcription, env, prompt, lang, url, auto_sub, disk, sub_file,
                   tdisk, video_file, audio_path, wav_audio_path, prev>>

----------------
(* SubsProvider.remove_subtitles                                            *)

\* the files of d at the places in S, in order
KeptAt(d, S) ==
    LET F[i \in 0..Len(d)] ==
            IF i = 0 THEN <<>>
            ELSE IF i \in S THEN Append(F[i - 1], d[i]) ELSE F[i - 1]
    IN  F[Len(d)]

\* lines 131-153: every file matching subs.* is unlinked; an unlink that
\* fails is logged and the file stays
RemoveSubtitles ==
    /\ pc = "remove_subtitles"
    /\ \E failed \in SUBSET (1..Len(disk)) :
          /\ disk' = KeptAt(disk, failed)
          /\ trace' = Append(trace, EvF("remove_subtitles", "", <<>>,
                                        Len(disk) - Cardinality(failed), ""))
    /\ Finish(Returned(None), "Removed")
    /\ UNCHANGED <<entry, args_auto_sub, run, parked, transcription, env, prompt, lang, url, auto_sub, sub_file,
                   subtitles_text, tdisk, video_file, audio_path, wav_audio_path, prev, fetched>>

----------------
(* Pipline.start; GeminiSummarizer is outside the sources at hand.          *)

\* summarizer.summarize(text) of GeminiSummarizer(key, prompt): the summary
Summary(text, p) == Str(<<"summary", p>> \o text)

\* (the lookup failure only logged, the run going on)
OnMissingGeminiKey_Logged == pc' = "download_subtitles" /\ UNCHANGED <<outcome, cause>>

\* lines 21-25: GEMINI_KEY is not set
OnMissingGeminiKey == Finish(SysExit1, "MissingCredential")

\* lines 16-27: look the summarization key up, then go on to line 28
StartReadKey ==
    /\ pc = "start"
    /\ trace' = Append(trace, Ev("environ", "GEMINI_KEY"))
    /\ IF env.gemini
       THEN pc' = "download_subtitles" /\ UNCHANGED <<outcome, cause>>
       ELSE OnMissingGeminiKey
    /\ UNCHANGED <<entry, args_auto_sub, run, parked, transcription, env, prompt, lang, url, auto_sub, disk, sub_file, subtitles_text,
                   tdisk, video_file, audio_path, wav_audio_path, prev, fetched>>

\* (the test of line 30 inverted)
NeedsTranscription_Inverted(v) == Truthy(v)

\* line 30: if not subtitles_text
NeedsTranscription(v) == ~Truthy(v)

\* lines 45-47: if not subtitles_text, give up with None
AfterTranscription(t) ==
    IF ~Truthy(t)
    THEN Finish(Returned(None), "NoTranscriptAvailable")
    ELSE pc' = "summarize" /\ UNCHANGED <<outcome, cause>>

\* lines 42-43: Transcriber(openai_key), then transcribe_from_url(url) without
\* await: the call returns a coroutine object and runs none of its body
CallTranscriber ==
    /\ trace' = trace \o <<Ev("environ", "OPENAI_API_KEY"), Ev("Transcriber", ""),
                           Ev("transcribe_from_url", url)>>
    /\ subtitles_text' = Coroutine
    /\ AfterTranscription(Coroutine)

\* (the lookup failure only logged, the transcriber built without a key)
OnMissingOpenaiKey_Logged == CallTranscriber

\* lines 36-40: OPENAI_API_KEY is not set
OnMissingOpenaiKey ==
    /\ trace' = Append(trace, Ev("environ", "OPENAI_API_KEY"))
    /\ Finish(SysExit1, "MissingCredential")
    /\ UNCHANGED subtitles_text

\* (the transcription key looked up before the test of line 30)
StartCheckSubtitles_EagerKey ==
    /\ pc = "check_subtitles"
    /\ IF ~env.openai
       THEN OnMissingOpenaiKey
       ELSE IF NeedsTranscription(subtitles_text)
            THEN CallTranscriber
            ELSE /\ trace' = Append(trace, Ev("environ", "OPENAI_API_KEY"))
                 /\ UNCHANGED subtitles_text
                 /\ AfterTranscription(subtitles_text)
    /\ UNCHANGED <<entry, args_auto_sub, run, parked, transcription, env, prompt, lang, url, auto_sub, disk, sub_file,
                   tdisk, video_file, audio_path, wav_audio_path, prev, fetched>>

\* lines 30-47: the transcription fallback and the test for a transcript
StartCheckSubtitles ==
    /\ pc = "check_subtitles"
    /\ IF NeedsTranscription(subtitles_text)
       THEN IF env.openai THEN CallTranscriber ELSE OnMissingOpenaiKey
       ELSE /\ UNCHANGED <<subtitles_text, trace>>
            /\ AfterTranscription(subtitles_text)
    /\ UNCHANGED <<entry, args_auto_sub, run, parked, transcription, env, prompt, lang, url, auto_sub, disk, sub_file,
                   tdisk, video_file, audio_path, wav_audio_path, prev, fetched>>

\* lines 49-56: build the summarizer and summarize a str; anything raised there
\* is logged and None returned; a value that is no str falls through to the
\* end of the function, which returns None
StartSummarize ==
    /\ pc = "summarize"
    /\ \E built \in BOOLEAN, answered \in BOOLEAN :
          LET ctor == EvF("GeminiSummarizer", prompt, <<>>, 0, BoolStr(built))
          IN  IF ~built
              THEN /\ trace' = Append(trace, ctor)
                   /\ Finish(Returned(None), "SummarizationFailed")
              ELSE IF IsStr(subtitles_text)
                   THEN /\ trace' = trace \o <<ctor, EvF("summarize", prompt, subtitles_text.val,
                                                        0, BoolStr(answered))>>
                        /\ IF answered
                           THEN Finish(Returned(Summary(subtitles_text.val, prompt)), "Summary")
                           ELSE Finish(Returned(None), "SummarizationFailed")
                   ELSE /\ trace' = Append(trace, ctor)
                        /\ Finish(Returned(None), "NoTranscriptAvailable")
    /\ UNCHANGED <<entry, args_auto_sub, run, parked, transcription, env, prompt, lang, url, auto_sub, disk, sub_file, subtitles_text,
                   tdisk, video_file, audio_path, wav_audio_path, prev, fetched>>

----------------
(* Transcriber.transcribe_from_url, run by an event loop                    *)

max_duration_s == 300

\* what info_dict.get("duration", 0) may be: None stands for a null duration
Durations == {0, 300, 301}

NoPath == <<>>
\* the extensions ydl.prepare_filename may give: a video container, or the
\* audio-only m4a
Exts == {"mp4", "m4a"}
\* ydl.prepare_filename(info_dict): "<hostname>-<id>.<ext>"
VideoPath(u, x) == <<u, x>>
\* data a download that fails leaves behind
PartPath(u) == <<u, "part">>
\* line 95: the video's name with its extension replaced by m4a (the video's
\* own name when that is its extension)
AudioPath(v) == <<v[1], "m4a">>
\* line 143: tempfile.mktemp(suffix=".wav"), a name of its own for each run
WavPath(r) == <<"tmp", r, "wav">>

\* the text the Whisper API may answer with
Speech == <<"x", "y">>

\* (the duration bound not applied)
DurationAllowed_Unbounded(d) == d >= 0

\* line 83: video_duration <= max_duration_s
DurationAllowed(d) == d <= max_duration_s

\* (the dependent step begun without awaiting the end of the child process)
AfterCreated_NotAwaited(wait, dependent) == dependent

\* lines 102, 138, 154: the creation of a child process is followed by
\* await process.communicate(); the dependent step comes after that
AfterCreated(wait, dependent) == wait

\* await asyncio.create_subprocess_exec(...) for the tool `op`: the child is
\* created or the call raises
Created(op, started) == Ev(op, IF started THEN "created" ELSE "not_started")

\* the child `op` has written its output file `path`
ChildWrote(op, path) == EvT("child_wrote", op, path)

\* await process.communicate() returns: the child `op` has exited with status
\* `r` and its output is read; the call says nothing about the files
Communicate(op, r) == <<EvF("communicate", op, <<>>, 0, r)>>

\* the exit statuses a child may end with
ExitStatuses == {"nonzero", "zero"}

\* line 103: process.returncode is read
ReturnCode(op) == <<Ev("returncode", op)>>

\* transcribe_from_url returns t (lines 56-61), the files in `d` being left
TranscribeReturn(t, d) ==
    /\ tdisk' = d
    /\ Finish(Returned(Str(t)), IF t = <<>> THEN "NoTranscriptAvailable" ELSE "Transcription")

\* lines 47-50, 68-83, 86-87: the metadata probe and the duration bound; on
\* the way out video_file is still None at line 59 and nothing is removed
TProbe ==
    /\ pc = "extract_info"
    /\ \E r \in {"raise", "none", "null_duration", "info"}, d \in Durations :
          /\ r # "info" => d = 0
          /\ trace' = Append(trace, EvF("extract_info", url, <<>>, d, r))
          /\ IF r = "info" /\ DurationAllowed(d)
             THEN pc' = "download_video" /\ UNCHANGED <<tdisk, outcome, cause>>
             ELSE TranscribeReturn(<<>>, tdisk)
    /\ UNCHANGED <<entry, args_auto_sub, run, parked, transcription, env, prompt, lang, url, auto_sub, disk, sub_file, subtitles_text,
                   video_file, audio_path, wav_audio_path, prev, fetched>>

\* lines 84-85, 50: the download; one that fails may leave partial data behind
\* and leaves video_file None, so that line 59 removes nothing
TDownload ==
    /\ pc = "download_video"
    /\ \E ok \in BOOLEAN, partial \in BOOLEAN, x \in Exts :
          IF ok
          THEN /\ trace' = Append(trace, EvT("download_video", "True", VideoPath(url, x)))
               /\ tdisk' = tdisk \cup {VideoPath(url, x)}
               /\ video_file' = VideoPath(url, x)
               /\ pc' = "ffmpeg_extract"
               /\ UNCHANGED <<outcome, cause>>
          ELSE /\ trace' = Append(trace, EvT("download_video", "False",
                                             IF partial THEN PartPath(url) ELSE NoPath))
               /\ video_file' = video_file
               /\ TranscribeReturn(<<>>, tdisk \cup (IF partial THEN {PartPath(url)} ELSE {}))
    /\ UNCHANGED <<entry, args_auto_sub, run, parked, transcription, env, prompt, lang, url, auto_sub, disk, sub_file, subtitles_text,
                   audio_path, wav_audio_path, prev, fetched>>

\* lines 95-101: ffmpeg is started on the video.  When it cannot be started
\* the exception leaves through the finally block of line 108
TExtractStart ==
    /\ pc = "ffmpeg_extract"
    /\ \E started \in BOOLEAN :
          /\ trace' = Append(trace, Created("ffmpeg_extract", started))
          /\ IF started
             THEN /\ pc' = AfterCreated("await_ffmpeg_extract", "ffprobe")
                  /\ UNCHANGED <<tdisk, outcome, cause>>
             ELSE pc' = "finally_audio" /\ UNCHANGED <<tdisk, outcome, cause>>
    /\ UNCHANGED <<entry, args_auto_sub, run, parked, transcription, env, prompt, lang, url, auto_sub, disk, sub_file, subtitles_text,
                   video_file, audio_path, wav_audio_path, prev, fetched>>

\* the child process the run is waiting for (the extracting ffmpeg of line 96,
\* the converting ffmpeg of lines 144-152) writes its output file
ChildWrites ==
    /\ pc \in {"await_ffmpeg_extract", "await_ffmpeg_convert"}
    /\ LET op == IF pc = "await_ffmpeg_extract" THEN "ffmpeg_extract" ELSE "ffmpeg_convert"
           path == IF pc = "await_ffmpeg_extract" THEN AudioPath(video_file) ELSE wav_audio_path
       IN  /\ ~DidArg("child_wrote", op)
           /\ trace' = Append(trace, ChildWrote(op, path))
           /\ tdisk' = tdisk \cup {path}
    /\ UNCHANGED <<entry, args_auto_sub, run, parked, transcription, env, prompt, lang, url, auto_sub, disk, sub_file, subtitles_text,
                   pc, video_file, audio_path, wav_audio_path, outcome, cause, prev, fetched>>

\* lines 102-107: communicate() returns and the exit status is read; a
\* non-zero status raises and leaves through the finally block of line 108
TExtractAwait ==
    /\ pc = "await_ffmpeg_extract"
    /\ \E r \in ExitStatuses :
          /\ trace' = trace \o Communicate("ffmpeg_extract", r) \o ReturnCode("ffmpeg_extract")
          /\ IF r = "zero"
             THEN /\ audio_path' = AudioPath(video_file)
                  /\ pc' = "ffprobe"
                  /\ UNCHANGED <<tdisk, outcome, cause>>
             ELSE /\ audio_path' = audio_path
                  /\ pc' = "finally_audio"
                  /\ UNCHANGED <<tdisk, outcome, cause>>
    /\ UNCHANGED <<entry, args_auto_sub, run, parked, transcription, env, prompt, lang, url, auto_sub, disk, sub_file, subtitles_text,
                   video_file, wav_audio_path, prev, fetched>>

\* lines 120-137: ffprobe is started on the audio file.  Failing to start it
\* raises outside the try of _transcribe_audio and leaves through the finally
\* block of _extract_audio (line 108)
TCodecStart ==
    /\ pc = "ffprobe"
    /\ \E started \in BOOLEAN :
          /\ trace' = Append(trace, Created("ffprobe", started))
          /\ IF started
             THEN /\ pc' = AfterCreated("await_ffprobe", "ffmpeg_convert")
                  /\ UNCHANGED <<tdisk, outcome, cause>>
             ELSE pc' = "finally_audio" /\ UNCHANGED <<tdisk, outcome, cause>>
    /\ UNCHANGED <<entry, args_auto_sub, run, parked, transcription, env, prompt, lang, url, auto_sub, disk, sub_file, subtitles_text,
                   video_file, audio_path, wav_audio_path, prev, fetched>>

\* lines 138-143: communicate() returns what ffprobe printed, the codec; its
\* exit status is not looked at
TCodecAwait ==
    /\ pc = "await_ffprobe"
    /\ \E r \in ExitStatuses, codec \in {"pcm_s16le", "aac", ""} :
          /\ trace' = trace \o Communicate("ffprobe", r)
          /\ IF codec # "pcm_s16le"
             THEN wav_audio_path' = WavPath(run) /\ pc' = "ffmpeg_convert"
             ELSE wav_audio_path' = NoPath /\ pc' = "whisper"
    /\ UNCHANGED <<entry, args_auto_sub, run, parked, transcription, env, prompt, lang, url, auto_sub, disk, sub_file, subtitles_text,
                   tdisk, video_file, audio_path, outcome, cause, prev, fetched>>

\* lines 144-153: the converting ffmpeg is started.  Failing to start it is
\* caught at line 165 and "" leaves through the finally block of line 169
TConvertStart ==
    /\ pc = "ffmpeg_convert"
    /\ \E started \in BOOLEAN :
          /\ trace' = Append(trace, Created("ffmpeg_convert", started))
          /\ IF started
             THEN /\ pc' = AfterCreated("await_ffmpeg_convert", "whisper")
                  /\ UNCHANGED <<tdisk, outcome, cause>>
             ELSE pc' = "finally_wav" /\ UNCHANGED <<tdisk, outcome, cause>>
    /\ UNCHANGED <<entry, args_auto_sub, run, parked, transcription, env, prompt, lang, url, auto_sub, disk, sub_file, subtitles_text,
                   video_file, audio_path, wav_audio_path, prev, fetched>>

\* lines 154-156: communicate() returns; the exit status is not looked at and
\* the wav path becomes the file to transcribe
TConvertAwait ==
    /\ pc = "await_ffmpeg_convert"
    /\ \E r \in ExitStatuses :
          trace' = trace \o Communicate("ffmpeg_convert", r)
    /\ audio_path' = wav_audio_path
    /\ pc' = "whisper"
    /\ UNCHANGED <<entry, args_auto_sub, run, parked, transcription, env, prompt, lang, url, auto_sub, disk, sub_file, subtitles_text,
                   tdisk, video_file, wav_audio_path, outcome, cause, prev, fetched>>

\* lines 158-168, 54-55: the file to transcribe is opened and the Whisper API
\* called; whatever that raises, and a file that cannot be opened, give ""
TWhisper ==
    /\ pc = "whisper"
    /\ \E answered \in BOOLEAN, t \in {<<>>, Speech} :
          LET opened == audio_path \in tdisk
          IN  /\ trace' = Append(trace, EvT("whisper",
                                    IF ~opened THEN "not_opened" ELSE BoolStr(answered), audio_path))
              /\ transcription' = IF opened /\ answered THEN t ELSE <<>>
    /\ pc' = "finally_wav"
    /\ UNCHANGED <<entry, args_auto_sub, run, parked, env, prompt, lang, url, auto_sub, disk, sub_file, subtitles_text,
                   tdisk, video_file, audio_path, wav_audio_path, outcome, cause, prev, fetched>>

\* lines 169-171: the finally of _transcribe_audio removes the converted file
\* when one was named and is there.  The name is the run's own (mktemp, line
\* 143): nothing else writes or removes that file between the test and the
\* removal
TFinallyWav ==
    /\ pc = "finally_wav"
    /\ tdisk' = IF wav_audio_path # NoPath THEN tdisk \ {wav_audio_path} ELSE tdisk
    /\ pc' = "finally_audio"
    /\ UNCHANGED <<entry, args_auto_sub, run, parked, env, prompt, lang, url, auto_sub, disk, sub_file, subtitles_text,
                   video_file, audio_path, wav_audio_path, prev, fetched, trace,
                   transcription, outcome, cause>>

\* lines 108-109: the finally of _extract_audio tests whether the audio file
\* is there
TFinallyAudio ==
    /\ pc = "finally_audio"
    /\ pc' = IF AudioPath(video_file) \in tdisk THEN "remove_audio" ELSE "finally_video"
    /\ UNCHANGED <<entry, args_auto_sub, run, parked, env, prompt, lang, url, auto_sub, disk, sub_file, subtitles_text,
                   video_file, audio_path, wav_audio_path, prev, fetched, trace,
                   transcription, tdisk, outcome, cause>>

\* lines 110, 56-57: os.remove of the audio file.  When the file is gone by
\* now the FileNotFoundError is caught at line 56 and transcription is kept
TRemoveAudio ==
    /\ pc = "remove_audio"
    /\ tdisk' = tdisk \ {AudioPath(video_file)}
    /\ pc' = "finally_video"
    /\ UNCHANGED <<entry, args_auto_sub, run, parked, env, prompt, lang, url, auto_sub, disk, sub_file, subtitles_text,
                   video_file, audio_path, wav_audio_path, prev, fetched, trace,
                   transcription, outcome, cause>>

\* lines 58-59, 61: the finally of transcribe_from_url tests whether the video
\* is there; when it is not the transcription is returned
TFinallyVideo ==
    /\ pc = "finally_video"
    /\ IF video_file # NoPath /\ video_file \in tdisk
       THEN pc' = "remove_video" /\ UNCHANGED <<tdisk, outcome, cause>>
       ELSE TranscribeReturn(transcription, tdisk)
    /\ UNCHANGED <<entry, args_auto_sub, run, parked, env, prompt, lang, url, auto_sub, disk, sub_file, subtitles_text,
                   video_file, audio_path, wav_audio_path, prev, fetched, trace,
                   transcription>>

\* lines 60-61: os.remove of the video and the return.  When the video is
\* gone by now the FileNotFoundError leaves transcribe_from_url: nothing
\* catches what a finally block raises
TRemoveVideo ==
    /\ pc = "remove_video"
    /\ IF video_file \in tdisk
       THEN TranscribeReturn(transcription, tdisk \ {video_file})
       ELSE UNCHANGED tdisk /\ Finish(Raised, "FileNotFoundError")
    /\ UNCHANGED <<entry, args_auto_sub, run, parked, env, prompt, lang, url, auto_sub, disk, sub_file, subtitles_text,
                   video_file, audio_path, wav_audio_path, prev, fetched, trace,
                   transcription>>

----------------------------------------------------------------------------
(* Calls.                                                                   *)

FirstPc(e) ==
    IF e = "start" THEN "start"
    ELSE IF e = "fetch_subtitles" THEN "download_subtitles"
    ELSE IF e = "remove_subtitles" THEN "remove_subtitles"
    ELSE "extract_info"

NoPrev == [outcome |-> Running, cause |-> ""]

\* a call begins: cli.main runs Pipline(prompt, url, lang).start(), or a caller
\* runs fetch_subtitles or transcribe_from_url themselves
Begin(e, k, p, l, u, a, flag) ==
    /\ entry' = e
    /\ args_auto_sub' = flag
    /\ pc' = FirstPc(e)
    /\ env' = k
    /\ prompt' = p
    /\ lang' = l
    /\ url' = u
    /\ auto_sub' = a
    /\ sub_file' = NoFile
    /\ subtitles_text' = None
    /\ video_file' = NoPath
    /\ audio_path' = NoPath
    /\ wav_audio_path' = NoPath
    /\ transcription' = <<>>
    /\ outcome' = Running
    /\ cause' = ""
    /\ fetched' = Running
    /\ trace' = <<>>

Envs == [gemini : BOOLEAN, openai : BOOLEAN]

\* the arguments a call of entry e takes: cli.main parses prompt, url, --lang
\* and --auto-sub (`flag`) and builds Pipline(args.prompt, args.url, args.lang)
\* (cli.py line 33); the pipeline reads both keys and passes url and lang but
\* no auto_sub (pipline.py line 28), so that fetch_subtitles runs with its
\* default False; fetch_subtitles takes url, lang and auto_sub;
\* transcribe_from_url takes the url; remove_subtitles takes nothing
Calls ==
    {[entry |-> "start", env |-> k, prompt |-> p, lang |-> l, url |-> u, auto_sub |-> FALSE,
      flag |-> f] :
        k \in Envs, p \in Prompts, l \in Langs, u \in Urls, f \in BOOLEAN}
    \cup {[entry |-> "fetch_subtitles", env |-> [gemini |-> TRUE, openai |-> TRUE],
           prompt |-> "", lang |-> l, url |-> u, auto_sub |-> a, flag |-> FALSE] :
        l \in Langs, u \in Urls, a \in BOOLEAN}
    \cup {[entry |-> "transcribe_from_url", env |-> [gemini |-> TRUE, openai |-> TRUE],
           prompt |-> "", lang |-> "", url |-> u, auto_sub |-> FALSE, flag |-> FALSE] :
        u \in Urls}
    \cup {[entry |-> "remove_subtitles", env |-> [gemini |-> TRUE, openai |-> TRUE],
           prompt |-> "", lang |-> "", url |-> "", auto_sub |-> FALSE, flag |-> FALSE]}

\* a run of transcribe_from_url as it waits: its position and its locals
Context(r, at, u, v, a, w, x, o, c, t) ==
    [run |-> r, pc |-> at, url |-> u, video_file |-> v, audio_path |-> a,
     wav_audio_path |-> w, transcription |-> x, outcome |-> o, cause |-> c, trace |-> t]

\* no other run shares the directory
NoRun == Context(0, "none", "", NoPath, NoPath, NoPath, <<>>, Running, "", <<>>)

Init ==
    /\ \E c \in Calls :
          /\ entry = c.entry
          /\ pc = FirstPc(c.entry)
          /\ env = c.env
          /\ prompt = c.prompt
          /\ lang = c.lang
          /\ url = c.url
          /\ auto_sub = c.auto_sub
          /\ args_auto_sub = c.flag
    /\ run = 1
    /\ parked = NoRun
    /\ disk = <<>>
    /\ sub_file = NoFile
    /\ subtitles_text = None
    /\ tdisk = {}
    /\ video_file = NoPath
    /\ audio_path = NoPath
    /\ wav_audio_path = NoPath
    /\ transcription = <<>>
    /\ outcome = Running
    /\ cause = ""
    /\ prev = NoPrev
    /\ fetched = Running
    /\ trace = <<>>

\* the next call in the same working directory
Restart ==
    /\ pc = "done"
    /\ \E c \in Calls : Begin(c.entry, c.env, c.prompt, c.lang, c.url, c.auto_sub, c.flag)
    /\ prev' = IF entry = "start" THEN [outcome |-> outcome, cause |-> cause] ELSE NoPrev
    /\ UNCHANGED <<disk, tdisk, run, parked>>

Next ==
    \/ StartReadKey
    \/ FetchDownload
    \/ FetchFind
    \/ FetchFallback
    \/ FetchParse
    \/ StartCheckSubtitles
    \/ StartSummarize
    \/ TProbe
    \/ TDownload
    \/ TExtractStart
    \/ ChildWrites
    \/ TExtractAwait
    \/ TCodecStart
    \/ TCodecAwait
    \/ TConvertStart
    \/ TConvertAwait
    \/ TWhisper
    \/ TFinallyWav
    \/ TFinallyAudio
    \/ TRemoveAudio
    \/ TFinallyVideo
    \/ TRemoveVideo
    \/ RemoveSubtitles
    \/ Restart

Spec == Init /\ [][Next]_vars

----------------------------------------------------------------------------
(* Two runs of transcribe_from_url at once in one working directory: one    *)
(* run is shown in the variables, the other waits in `parked`, and the two  *)
(* take turns between any two steps.  The two runs are alike, so the first  *)
(* is on the first URL and the other on either of the two.                  *)

ConcUrls == {"https://host/v1", "https://host/v2"}

\* the run shown, as a context
Current ==
    Context(run, pc, url, video_file, audio_path, wav_audio_path, transcription,
            outcome, cause, trace)

ConcInit ==
    /\ entry = "transcribe_from_url"
    /\ args_auto_sub = FALSE
    /\ env = [gemini |-> TRUE, openai |-> TRUE]
    /\ prompt = ""
    /\ lang = ""
    /\ auto_sub = FALSE
    /\ disk = <<>>
    /\ sub_file = NoFile
    /\ subtitles_text = None
    /\ tdisk = {}
    /\ prev = NoPrev
    /\ fetched = Running
    /\ run = 1
    /\ pc = "extract_info"
    /\ url = "https://host/v1"
    /\ video_file = NoPath
    /\ audio_path = NoPath
    /\ wav_audio_path = NoPath
    /\ transcription = <<>>
    /\ outcome = Running
    /\ cause = ""
    /\ trace = <<>>
    /\ \E u \in ConcUrls :
          parked = Context(2, "extract_info", u, NoPath, NoPath, NoPath, <<>>, Running, "", <<>>)

\* the run shown waits (at an await, or as a process the system suspends)
\* and the other run goes on
Switch ==
    /\ parked.pc # "none"
    /\ parked' = Current
    /\ run' = parked.run
    /\ pc' = parked.pc
    /\ url' = parked.url
    /\ video_file' = parked.video_file
    /\ audio_path' = parked.audio_path
    /\ wav_audio_path' = parked.wav_audio_path
    /\ outcome' = parked.outcome
    /\ cause' = parked.cause
    /\ trace' = parked.trace
    /\ transcription' = parked.transcription
    /\ UNCHANGED <<entry, args_auto_sub, env, prompt, lang, auto_sub, disk, sub_file,
                   subtitles_text, tdisk, prev, fetched>>

ConcNext ==
    \/ TProbe
    \/ TDownload
    \/ TExtractStart
    \/ ChildWrites
    \/ TExtractAwait
    \/ TCodecStart
    \/ TCodecAwait
    \/ TConvertStart
    \/ TConvertAwait
    \/ TWhisper
    \/ TFinallyWav
    \/ TFinallyAudio
    \/ TRemoveAudio
    \/ TFinallyVideo
    \/ TRemoveVideo
    \/ Switch

ConcSpec == ConcInit /\ [][ConcNext]_vars

----------------------------------------------------------------------------
(* parse_subtitle on its own: every file content of up to MaxLen tokens is  *)
(* parsed, the result written to a second file and that file parsed again.  *)

MaxLen == 4

\* the contents a file may hold
Texts == UNION {[1..n -> Tokens] : n \in 0..MaxLen}

TextFile(name, c) == [name |-> name, content |-> c, readable |-> TRUE]

NormInit ==
    /\ entry = "parse_subtitle"
    /\ pc = "parse"
    /\ env = [gemini |-> TRUE, openai |-> TRUE]
    /\ prompt = ""
    /\ lang = ""
    /\ url = ""
    /\ auto_sub = FALSE
    /\ args_auto_sub = FALSE
    /\ run = 1
    /\ parked = NoRun
    /\ \E c \in Texts : disk = <<TextFile("in", c)>>
    /\ sub_file = "in"
    /\ subtitles_text = None
    /\ tdisk = {}
    /\ video_file = NoPath
    /\ audio_path = NoPath
    /\ wav_audio_path = NoPath
    /\ transcription = <<>>
    /\ outcome = Running
    /\ cause = ""
    /\ prev = NoPrev
    /\ fetched = Running
    /\ trace = <<>>

\* parse_subtitle(sub_file)
NormParse ==
    /\ pc = "parse"
    /\ subtitles_text' = Str(ParseText(File(disk, sub_file).content))
    /\ fetched' = Returned(subtitles_text')
    /\ pc' = "reparse"
    /\ UNCHANGED <<entry, args_auto_sub, run, parked, transcription, env, prompt, lang, url, auto_sub, disk, sub_file, tdisk, video_file,
                   audio_path, wav_audio_path, outcome, cause, prev, trace>>

\* the text returned is written to a file, and parse_subtitle run on that file
NormReparse ==
    /\ pc = "reparse"
    /\ disk' = Append(disk, TextFile("out", subtitles_text.val))
    /\ sub_file' = "out"
    /\ subtitles_text' = Str(ParseText(subtitles_text.val))
    /\ Finish(Returned(subtitles_text'), "Parsed")
    /\ UNCHANGED <<entry, args_auto_sub, run, parked, transcription, env, prompt, lang, url, auto_sub, tdisk, video_file,
                   audio_path, wav_audio_path, prev, fetched, trace>>

NormNext == NormParse \/ NormReparse

NormSpec == NormInit /\ [][NormNext]_vars

----------------------------------------------------------------------------
(* Properties of parse_subtitle                                             *)

\* what a line becomes: stripped, its tags removed, stripped again
Caption(line) == Strip(StripTags(Strip(line)))

\* a line that is blank, a header, a timestamp, or blank without its tags
IsDiscarded(line) ==
    \/ Strip(line) = <<>>
    \/ IsHeader(Strip(line))
    \/ TimestampMatch(Strip(line))
    \/ Caption(line) = <<>>

\* the captions of the lines that are not discarded, in order
Captions(content) ==
    LET kept == SelectSeq(SplitLines(content), LAMBDA l : ~IsDiscarded(l))
    IN  [i \in 1..Len(kept) |-> Caption(kept[i])]

RECURSIVE Collapse(_)
\* a sequence without the elements equal to the element before them
Collapse(s) ==
    IF Len(s) <= 1 THEN s
    ELSE LET r == Collapse(SubSeq(s, 1, Len(s) - 1))
         IN  IF s[Len(s)] = s[Len(s) - 1] THEN r ELSE Append(r, s[Len(s)])

Parsed == pc \in {"reparse", "done"} /\ entry = "parse_subtitle"
InputText == disk[1].content
FirstOutput == fetched.val.val

\* C11: the text parse_subtitle returns is a sequence of non-empty lines, no
\* two consecutive lines the same: of the captions of the lines not
\* discarded, exactly those equal to the caption retained before them are
\* left out, whatever discarded lines lie between the two.
C11_NoEmptyNoRepeatedLines ==
    Parsed =>
        LET out == SplitLines(FirstOutput)
        IN  /\ \A i \in 1..Len(out) : out[i] # <<>>
            /\ \A i \in 2..Len(out) : out[i] # out[i - 1]
            /\ out = Collapse(Captions(InputText))

\* a caption repeated across a discarded line is left out
C11_Witness ==
    /\ Parsed
    /\ InputText = <<"x", "nl", "nl", "x">>
    /\ FirstOutput = <<"x">>

\* C12 (as stated): parsing the text parse_subtitle returned gives that text
\* again, for every file content.
C12_Idempotent ==
    (pc = "done" /\ entry = "parse_subtitle") => subtitles_text = fetched.val

\* no line is a header or a timestamp line
NoHeaderNoTimestamp(text) ==
    \A i \in 1..Len(SplitLines(text)) :
        ~IsHeader(SplitLines(text)[i]) /\ ~TimestampMatch(SplitLines(text)[i])

\* C12 (amended): parsing the text parse_subtitle returned gives that text
\* again whenever no line of it is a header or a timestamp line.
C12_IdempotentOnCleanOutput ==
    (pc = "done" /\ entry = "parse_subtitle" /\ NoHeaderNoTimestamp(FirstOutput))
        => subtitles_text = fetched.val

\* an input that the first pass changes and the second leaves alone
C12_Witness ==
    /\ pc = "done" /\ entry = "parse_subtitle"
    /\ InputText = <<"<", ">", "x", "sp">>
    /\ FirstOutput = <<"x">>
    /\ subtitles_text = Str(<<"x">>)

----------------------------------------------------------------------------
(* Properties of the pipeline controller                                    *)

\* fetch_subtitles handed Pipline.start a non-empty transcript
GotSubtitles == fetched.kind = "return" /\ Truthy(fetched.val)

\* fetch_subtitles handed Pipline.start None
GotNoSubtitles == fetched = Returned(None)

\* C1: in a run of Pipline.start, transcribe_from_url is invoked only if
\* fetch_subtitles returned no transcript; a run whose official attempt found no
\* valid file and whose auto-generated attempt gave a transcript never invokes it
C1_TranscriptionOnlyWithoutSubtitles ==
    entry = "start" =>
        /\ Did("transcribe_from_url") => GotNoSubtitles
        /\ (Count("download_subtitles") = 2 /\ GotSubtitles) =>
               ~Did("transcribe_from_url") /\ ~Did("Transcriber")

\* a finished run whose second, auto-generated attempt gave the transcript
C1_Witness ==
    /\ entry = "start" /\ pc = "done"
    /\ Count("download_subtitles") = 2 /\ DidArg("download_subtitles", "True")
    /\ GotSubtitles
    /\ cause = "Summary"

\* C2: with GEMINI_KEY unset, Pipline.start exits having done nothing but the
\* lookup of that key: no download, file search, child process or API call
C2_MissingGeminiKeyAbortsFirst ==
    (entry = "start" /\ ~env.gemini) =>
        /\ pc \in {"start", "done"}
        /\ \A i \in 1..Len(trace) : trace[i] = Ev("environ", "GEMINI_KEY")
        /\ pc = "done" => outcome = SysExit1 /\ cause = "MissingCredential"

C2_Witness ==
    /\ entry = "start" /\ ~env.gemini /\ pc = "done"
    /\ outcome = SysExit1
    /\ trace = <<Ev("environ", "GEMINI_KEY")>>

\* C3: when fetch_subtitles returned None and OPENAI_API_KEY is unset, the run
\* exits with the missing-credential failure; no Transcriber is built, no
\* transcription invoked, no metadata probe or video download made
C3_MissingOpenaiKeyFailsFast ==
    (entry = "start" /\ GotNoSubtitles /\ ~env.openai /\ pc # "check_subtitles") =>
        /\ pc = "done"
        /\ outcome = SysExit1 /\ cause = "MissingCredential"
        /\ ~Did("Transcriber") /\ ~Did("transcribe_from_url")
        /\ ~Did("extract_info") /\ ~Did("download_video")
        /\ ~Did("GeminiSummarizer")

\* both subtitle attempts were made, neither gave a transcript, the key is unset
C3_Witness ==
    /\ entry = "start" /\ pc = "done" /\ GotNoSubtitles /\ ~env.openai
    /\ Count("download_subtitles") = 2
    /\ DidArg("environ", "OPENAI_API_KEY")
    /\ outcome = SysExit1

\* what the run returns once subtitles are there: the summary of exactly that
\* text under the caller's prompt when the summarizer answered, None when not
SubtitleOutcome ==
    IF \E e \in Events("summarize") : e.res = "True"
    THEN Returned(Summary(fetched.val.val, prompt))
    ELSE Returned(None)

\* C4: when fetch_subtitles returned a transcript, OPENAI_API_KEY is never
\* looked up and no Transcriber built, and the result is a function of the
\* transcript, the prompt and the summarizer's answer alone: whether the
\* transcription key is set makes no difference
C4_TranscriptionKeyLazy ==
    (entry = "start" /\ GotSubtitles) =>
        /\ ~DidArg("environ", "OPENAI_API_KEY")
        /\ ~Did("Transcriber")
        /\ pc \in {"check_subtitles", "summarize", "done"}
        /\ pc = "done" =>
              /\ outcome = SubtitleOutcome
              /\ \A e \in Events("summarize") : e.text = fetched.val.val /\ e.arg = prompt

\* a run with subtitles and no transcription key that ends with the summary
C4_Witness ==
    /\ entry = "start" /\ pc = "done" /\ GotSubtitles /\ ~env.openai
    /\ cause = "Summary"
    /\ outcome = Returned(Summary(fetched.val.val, prompt))

\* C5: when fetch_subtitles returned None, the key is set and what
\* transcribe_from_url handed back is non-empty (it passes the test of line
\* 45), the summarizer is invoked with that text and the caller's prompt and,
\* unless summarization fails, the run returns its summary
C5_TranscriptionSummarized ==
    (/\ entry = "start" /\ pc = "done"
     /\ GotNoSubtitles /\ env.openai /\ Did("transcribe_from_url")
     /\ Truthy(subtitles_text)
     /\ cause # "SummarizationFailed") =>
        /\ \E e \in Events("summarize") : e.text = subtitles_text.val /\ e.arg = prompt
        /\ outcome = Returned(Summary(subtitles_text.val, prompt))

\* C6: the result of a pipeline run tells its caller what happened: two runs
\* that end with the same result ended for the same reason (summary, missing
\* credential, no transcript available, summarization failed)
C6_ResultTellsReason ==
    (entry = "start" /\ pc = "done" /\ prev.outcome = outcome) => prev.cause = cause

----------------------------------------------------------------------------
(* Properties of the transcription fallback                                 *)

\* the metadata probe answered with a duration above the bound
TooLong == \E e \in Events("extract_info") : e.res = "info" /\ e.num > max_duration_s

\* C7: when the probed duration exceeds max_duration_s, transcribe_from_url
\* returns "" and the video download is never invoked; the download is
\* invoked only after a probe that gave a duration <= max_duration_s
C7_TooLongNeverDownloaded ==
    entry = "transcribe_from_url" =>
        /\ TooLong =>
              /\ pc = "done" /\ outcome = Returned(Str(<<>>))
              /\ ~Did("download_video")
              /\ Len(trace) = 1
        /\ Did("download_video") =>
              \E e \in Events("extract_info") : e.res = "info" /\ e.num <= max_duration_s

\* a video one second too long: the call is over, nothing was downloaded
C7_Witness ==
    /\ entry = "transcribe_from_url" /\ pc = "done"
    /\ \E e \in Events("extract_info") : e.res = "info" /\ e.num = max_duration_s + 1
    /\ outcome = Returned(Str(<<>>))
    /\ ~Did("download_video")

\* the files the current call of transcribe_from_url has written
CreatedFiles ==
    {trace[i].text : i \in {j \in 1..Len(trace) :
        /\ trace[j].op \in {"download_video", "child_wrote"}
        /\ trace[j].text # NoPath}}

\* C8: when transcribe_from_url returns, none of the files that call wrote
\* (video, extracted audio, converted audio) is left in the directory
C8_NoFileLeftBehind ==
    (entry = "transcribe_from_url" /\ pc = "done") => CreatedFiles \cap tdisk = {}

\* the same for the calls whose video download did not fail
C8_NoFileLeftAfterCompleteDownload ==
    (entry = "transcribe_from_url" /\ pc = "done" /\ ~DidArg("download_video", "False")) =>
        CreatedFiles \cap tdisk = {}

----------------------------------------------------------------------------
(* Properties of subtitle acquisition                                       *)

\* C9: no exception leaves fetch_subtitles or transcribe_from_url into
\* Pipline.start: in a pipeline run fetch_subtitles ends by returning, and the
\* run never ends with an exception raised inside a stage
C9_NoExceptionCrosses ==
    entry = "start" => fetched # Raised /\ outcome # Raised

\* C10: parse_subtitle is never given a file of size 0, in the first attempt
\* or in the retry, and a call of fetch_subtitles in which every file located
\* had size 0 returns None
C10_EmptyFileIsAbsent ==
    /\ \A e \in Events("parse_subtitle") : e.num # 0 /\ e.text # <<>>
    /\ (/\ fetched # Running
        /\ Did("find_subtitle_file")
        /\ \A e \in Events("find_subtitle_file") : e.num = 0) => fetched = Returned(None)

\* both searches of a call located a file of size 0, and the call returned None
C10_Witness ==
    /\ entry = "fetch_subtitles" /\ pc = "done"
    /\ Count("find_subtitle_file") = 2
    /\ \A e \in Events("find_subtitle_file") : e.num = 0
    /\ outcome = Returned(None)

----------------------------------------------------------------------------
(* Properties of the download attempts of fetch_subtitles                   *)

\* where in the history of the call `op` was invoked
At(op) == {i \in 1..Len(trace) : trace[i].op = op}

InFetch == entry \in {"start", "fetch_subtitles"}

\* the i-th and the j-th entry are downloads, with a search between them
\* that located no file or a file of size 0
RetryAfterNoFile(i, j) ==
    \E k \in At("find_subtitle_file") : i < k /\ k < j /\ trace[k].num <= 0

\* C13: a call of fetch_subtitles downloads at most twice; the first download
\* asks for what the caller asked, a second one is made only after the first
\* gave no file of size above 0 and only when auto_sub is false, and it asks
\* for auto-generated subtitles; with auto_sub true exactly one download is made.
C13_AtMostTwoDownloads ==
    InFetch =>
        /\ Count("download_subtitles") <= 2
        /\ \A i \in At("download_subtitles"), j \in At("download_subtitles") :
              /\ (\A k \in At("download_subtitles") : i <= k) =>
                    trace[i].arg = BoolStr(auto_sub)
              /\ i < j => /\ ~auto_sub
                          /\ trace[j].arg = "True"
                          /\ RetryAfterNoFile(i, j)
        /\ (auto_sub /\ fetched # Running) => Count("download_subtitles") = 1

\* the second download found the subtitles the first had not
C13_Witness ==
    /\ InFetch /\ ~auto_sub
    /\ Count("download_subtitles") = 2
    /\ fetched.kind = "return" /\ Truthy(fetched.val)

\* the first download of the call failed, having written nothing
FirstDownloadFailed ==
    /\ At("download_subtitles") # {}
    /\ LET i == CHOOSE a \in At("download_subtitles") : \A b \in At("download_subtitles") : a <= b
       IN  trace[i].res = "False" /\ trace[i].text = <<>>

\* C14: a download that fails counts as having produced no file: when the
\* first download fails (writing nothing) and auto_sub is false, the call
\* neither raises nor returns nor parses a file on the strength of that
\* attempt: after its search it goes on to the auto-generated download.
C14_FailedDownloadIsNoFile ==
    (InFetch /\ ~auto_sub /\ FirstDownloadFailed /\ Did("find_subtitle_file")) =>
        (pc = "download_fallback" \/ Count("download_subtitles") = 2)

\* C15: Pipline.start has fetch_subtitles make its first download with the
\* caller's preference: it asks for auto-generated subtitles exactly when
\* the command line carried --auto-sub.
C15_AutoSubPreferencePassed ==
    (entry = "start" /\ Did("download_subtitles")) =>
        LET i == CHOOSE a \in At("download_subtitles") : \A b \in At("download_subtitles") : a <= b
        IN  trace[i].arg = BoolStr(args_auto_sub)

----------------------------------------------------------------------------
(* Properties of the steps of transcribe_from_url                           *)

\* the steps in the order of the protocol
StepNo(op) ==
    CASE op = "extract_info" -> 1
      [] op = "download_video" -> 2
      [] op = "ffmpeg_extract" -> 3
      [] op = "ffprobe" -> 4
      [] op = "ffmpeg_convert" -> 5
      [] op = "whisper" -> 6
      [] OTHER -> 0

\* the step recorded did not succeed: the probe raised or gave no usable
\* metadata, the download failed, a tool did not start or exited non-zero
StepFailed(e) ==
    \/ e.op = "extract_info" /\ e.res # "info"
    \/ e.op = "download_video" /\ e.arg # "True"
    \/ e.op \in {"ffmpeg_extract", "ffprobe", "ffmpeg_convert"} /\ e.arg = "not_started"
    \/ e.op = "communicate" /\ e.res # "zero"

\* the entry records the Transcription API being called with an opened file
ApiInvoked(e) == e.op = "whisper" /\ e.arg # "not_opened"

\* C16: the steps of transcribe_from_url run in the order of the protocol,
\* and the Transcription API is never invoked after a step that failed, a
\* non-zero exit of ffprobe or of the converting ffmpeg included.
C16_FailureAbortsLaterSteps ==
    entry = "transcribe_from_url" =>
        \A i \in 1..Len(trace), j \in 1..Len(trace) :
            i < j =>
                /\ (StepNo(trace[i].op) > 0 /\ StepNo(trace[j].op) > 0) =>
                      StepNo(trace[i].op) < StepNo(trace[j].op)
                /\ ApiInvoked(trace[j]) => ~StepFailed(trace[i])

\* before the j-th entry of the history the child process `op` was created
\* and its end awaited
Exited(op, j) ==
    \E i \in 1..(j - 1), k \in 1..(j - 1) :
        i < k /\ trace[i].op = op /\ trace[k].op = "communicate" /\ trace[k].arg = op

\* C17: no child process overlaps with a step that depends on it: the
\* extracting ffmpeg has exited before ffprobe is started, ffprobe before the
\* converting ffmpeg, the converting ffmpeg before the Transcription API is
\* given the converted file, and an exit status is read only of a process
\* that has exited.
C17_ChildExitedBeforeDependent ==
    entry = "transcribe_from_url" =>
        \A j \in 1..Len(trace) :
            /\ trace[j].op = "ffprobe" => Exited("ffmpeg_extract", j)
            /\ trace[j].op = "ffmpeg_convert" => Exited("ffprobe", j)
            /\ (trace[j].op = "whisper" /\ trace[j].text = wav_audio_path) =>
                  Exited("ffmpeg_convert", j)
            /\ trace[j].op = "returncode" => Exited(trace[j].arg, j)

\* a run that extracted, probed, converted and called the API with the
\* converted file
C17_Witness ==
    /\ entry = "transcribe_from_url" /\ pc = "done"
    /\ Did("ffmpeg_convert")
    /\ \E e \in Events("whisper") : e.text = wav_audio_path /\ e.arg = "True"

----------------------------------------------------------------------------
(* Properties of two runs of transcribe_from_url in one directory           *)

InProgress(c) == c.pc \notin {"none", "done"}

\* the video and audio paths the run has taken so far
PathsOf(c) ==
    IF c.video_file = NoPath THEN {}
    ELSE IF c.pc = "ffmpeg_extract" THEN {c.video_file}
    ELSE {c.video_file, AudioPath(c.video_file)}

\* the run's ffmpeg has written the audio file
WroteAudio(c) ==
    /\ c.video_file # NoPath
    /\ \E i \in 1..Len(c.trace) : c.trace[i] = ChildWrote("ffmpeg_extract", AudioPath(c.video_file))

\* the files the run has made (the video it downloaded, the audio its ffmpeg
\* wrote) that its next step reads
NeededBy(c) ==
    IF c.pc \in {"ffmpeg_extract", "await_ffmpeg_extract"} THEN {c.video_file}
    ELSE IF ~WroteAudio(c) THEN {}
    ELSE IF c.pc \in {"ffprobe", "await_ffprobe", "ffmpeg_convert", "await_ffmpeg_convert"}
         THEN {AudioPath(c.video_file)}
    ELSE IF c.pc = "whisper" /\ c.audio_path = AudioPath(c.video_file) THEN {c.audio_path}
    ELSE {}

\* C18: of two runs of transcribe_from_url under way in one directory (on
\* the same URL or on two), neither has a video or audio path the other has,
\* and the file a run is about to read is on disk: no run's cleanup removed it.
C18_ConcurrentRunsApart ==
    parked.pc # "none" =>
        /\ (InProgress(Current) /\ InProgress(parked)) =>
              PathsOf(Current) \cap PathsOf(parked) = {}
        /\ NeededBy(Current) \subseteq tdisk
        /\ NeededBy(parked) \subseteq tdisk

----------------------------------------------------------------------------
(* Properties of successive calls of fetch_subtitles in one directory       *)

\* before the j-th entry of the history a download of this call wrote `name`
WrittenBefore(name, j) ==
    \E i \in At("download_subtitles") : i < j /\ trace[i].text = <<name>>

\* C19: the transcript a call of fetch_subtitles returns is parsed from a
\* file that a download of that same call wrote, and a call whose downloads
\* wrote no file returns None, whatever subs.* files earlier calls left.
C19_TranscriptFromOwnDownload ==
    (InFetch /\ fetched.kind = "return") =>
        /\ Truthy(fetched.val) =>
              \A j \in At("parse_subtitle") : WrittenBefore(trace[j].arg, j)
        /\ (\A i \in At("download_subtitles") : trace[i].text = <<>>) =>
              fetched.val = None

====
